---- MODULE Spec2Model ----
(***************************************************************************)
(* Model of algbench.Benchmark (src/src/algbench/benchmark.py): a store of *)
(* benchmark results keyed by the fingerprint of a function call.  The     *)
(* class delegates storage to BenchmarkDb, fingerprint() and to_json(),    *)
(* which are modelled from the specification of the result store.          *)
(***************************************************************************)
EXTENDS Bags, FiniteSets, Integers, Sequences, TLC

VARIABLES
    db,      \* the backing collection of the benchmark (self._db)
    pc,      \* pc[w]: where worker w stands in its current call
    cur,     \* cur[w]: the call worker w is in (operation, arguments, write location)
    last,    \* the operation step taken last, with what it returned
    ran      \* per fingerprint, how the executions of func ended so far (history)

vars == <<db, pc, cur, last, ran>>

----------------------------------------------------------------------------
(* Bounds of the model *)

\* Physical units (per-write files, archived entries) a store may hold.
MaxUnits == 2

\* Attempts of a raising computation the counted history follows.
MaxAttempts == 2

Workers == {"w1", "w2"}

----------------------------------------------------------------------------
(* The benchmarked function of the class docstring:                        *)
(*     def f(x, _test=2, default="default"): print(x);                     *)
(*                                    return {"r1": x, "r2": "test"}       *)

PX == "x"
PTest == "_test"
PDefault == "default"

\* the first character of each parameter name
FirstChar == (PX :> "x") @@ (PTest :> "_") @@ (PDefault :> "d")

\* inspect.signature(f).parameters, in declaration order
Params == <<PX, PTest, PDefault>>
Params_set == {PX, PTest, PDefault}

\* the parameters that declare a default, with it
Defaults == (PTest :> 2) @@ (PDefault :> "default")

\* Python's None as passed in `_test=None`
None == 0

XValues == {1, 3, 6}
TestValues == {2, None}
DefaultValues == {"default", "other"}

ValuesOf(p) == IF p = PX THEN XValues ELSE IF p = PTest THEN TestValues ELSE DefaultValues

\* the arguments on which the computation raises
FailingX == {3}

FuncName == "f"

\* datetime.datetime.now() of a run: two readings of the clock
Timestamps == {1, 2}

\* Timer().time() of a run
Runtimes == {0}

----------------------------------------------------------------------------
(* Calls: positional arguments and keyword arguments *)

\* How a call passes one parameter: positionally, by keyword, or not at all.
Forms ==
    {fm \in [Params_set -> {"pos", "kw", "omit"}] :
        /\ fm[PX] # "omit"
        /\ fm[PTest] = "pos" => fm[PX] = "pos"
        /\ fm[PDefault] = "pos" => fm[PTest] = "pos"}

\* every way of calling f that sig.bind accepts: args is the positional
\* prefix, kwargs maps the names passed by keyword
Calls ==
    {[args |-> SubSeq(<<x, t, d>>, 1, Cardinality({p \in Params_set : fm[p] = "pos"})),
      kwargs |-> [p \in {q \in Params_set : fm[q] = "kw"} |->
                    IF p = PX THEN x ELSE IF p = PTest THEN t ELSE d]]
        : x \in XValues, t \in TestValues, d \in DefaultValues, fm \in Forms}

\* the calls the concurrent workers make: f(x) and f(x, default="other")
MainCalls ==
    {c \in Calls : /\ Len(c.args) = 1
                   /\ PTest \notin DOMAIN c.kwargs
                   /\ PDefault \in DOMAIN c.kwargs => c.kwargs[PDefault] # Defaults[PDefault]}

\* sig.bind(*args, **kwargs).arguments: positional arguments fill the
\* parameters in declaration order, keyword arguments go by name
BoundArguments(args, kwargs) ==
    [p \in {Params[i] : i \in 1..Len(args)} \cup DOMAIN kwargs |->
        IF p \in DOMAIN kwargs THEN kwargs[p]
        ELSE args[CHOOSE i \in 1..Len(args) : Params[i] = p]]

\* key.startswith("_")
StartsWithUnderscore(key) == FirstChar[key] = "_"

\* to_json(data) on data built from JSON-native values (numbers, text, null,
\* mappings of them) passes every value through unchanged
to_json(data) == data

\* fingerprint(data): a digest of the canonical form of data; the canonical
\* form of a mapping does not depend on the order of its keys, and distinct
\* canonical forms have distinct digests
fingerprint(data) == <<"digest", data.func, data.args>>

\* Benchmark._get_arg_data: the declared defaults, overridden by the bound
\* arguments, without the names that start with "_"
\* the arguments as bound, the defaults of the signature left out
MergedArgumentsBoundOnly(args, kwargs) == BoundArguments(args, kwargs)

MergedArguments(args, kwargs) ==
    LET bound == BoundArguments(args, kwargs)
    IN  [p \in DOMAIN Defaults \cup DOMAIN bound |->
            IF p \in DOMAIN bound THEN bound[p] ELSE Defaults[p]]

\* the argument data with the names that start with "_" left in
ArgDataUnfiltered(args, kwargs) ==
    [func |-> FuncName, args |-> MergedArguments(args, kwargs)]

ArgData(args, kwargs) ==
    LET func_args == MergedArguments(args, kwargs)
    IN  [func |-> FuncName,
         args |-> [key \in {k \in DOMAIN func_args : ~StartsWithUnderscore(k)} |->
                      func_args[key]]]

get_arg_data(args, kwargs) ==
    LET data == ArgData(args, kwargs)
    IN  [fingp |-> fingerprint(data), arg_data |-> to_json(data)]

\* func(*args, **kwargs): what f is called with after Python's own binding
CallArguments(args, kwargs) == MergedArguments(args, kwargs)

Raises(c) == CallArguments(c.args, c.kwargs)[PX] \in FailingX

\* the value f returns, and what it prints
Result(c) == [r1 |-> CallArguments(c.args, c.kwargs)[PX], r2 |-> "test"]
Stdout(c) == <<CallArguments(c.args, c.kwargs)[PX]>>

----------------------------------------------------------------------------
(* Entries *)

\* the result record Benchmark.run hands to the store
RunResult(c, timestamp, runtime) ==
    [result |-> Result(c), timestamp |-> timestamp, runtime |-> runtime,
     stdout |-> Stdout(c), stderr |-> <<>>]

\* an Entry: fingerprint, serialized parameters, serialized result
CreateEntry(arg_fingerprint, arg_data, result) ==
    [fingerprint |-> arg_fingerprint, parameters |-> arg_data, result |-> to_json(result)]

\* a run that identifies its entry by the arguments as passed, without the
\* declared defaults
RunEntryAsPassed(c, timestamp, runtime) ==
    LET bound == BoundArguments(c.args, c.kwargs)
        data == [func |-> FuncName,
                 args |-> [key \in {k \in DOMAIN bound : ~StartsWithUnderscore(k)} |->
                              bound[key]]]
    IN  CreateEntry(fingerprint(data), to_json(data), RunResult(c, timestamp, runtime))

\* the Entry a run of call c writes
RunEntry(c, timestamp, runtime) ==
    LET d == get_arg_data(c.args, c.kwargs)
    IN  CreateEntry(d.fingp, d.arg_data, RunResult(c, timestamp, runtime))

\* the raw entries handed to insert: entries of this or of another store
InsertEntries ==
    {RunEntry(c, t, r) : c \in {k \in MainCalls : ~Raises(k)}, t \in Timestamps, r \in Runtimes}

----------------------------------------------------------------------------
(* The result store (BenchmarkDb): per-write units at unique locations,   *)
(* and the archive compress merges them into.                              *)

\* the wire form of an entry in a per-write unit, and its archived form
Serialize(entry) == <<"json", entry>>
Parse(text) == text[2]
Pack(text) == <<"lzma", text>>
Unpack(blob) == blob[2]

EmptyDb == [loose |-> <<>>, packed |-> EmptyBag]

WholeLocations(d) == {l \in DOMAIN d.loose : d.loose[l].whole}

\* the entries of the whole per-write units, with their multiplicity
LooseEntries(d) ==
    LET es == {Parse(d.loose[l].data) : l \in WholeLocations(d)}
    IN  [e \in es |-> Cardinality({l \in WholeLocations(d) : Parse(d.loose[l].data) = e})]

\* the entries of the archive, with their multiplicity
PackedEntries(d) ==
    [e \in {Parse(Unpack(z)) : z \in DOMAIN d.packed} |-> d.packed[Pack(Serialize(e))]]

\* the logical content of the store: every entry a scan sees
Entries(d) == LooseEntries(d) (+) PackedEntries(d)

Units(d) == Cardinality(DOMAIN d.loose) + BagCardinality(d.packed)

\* a location made of the fingerprint alone: the same for every write of it
FingerprintLocation(d, fp) == <<fp, 0>>

\* a location no unit of the store has: the fingerprint plus the first free suffix
UniqueLocation(d, fp) ==
    <<fp, CHOOSE n \in 0..Cardinality(DOMAIN d.loose) :
              /\ <<fp, n>> \notin DOMAIN d.loose
              /\ \A m \in 0..(n - 1) : <<fp, m>> \in DOMAIN d.loose>>

\* a write creates its unit, and then makes it whole
DbBeginWrite(d, loc, entry) ==
    [d EXCEPT !.loose = (loc :> [data |-> Serialize(entry), whole |-> FALSE]) @@ @]

DbCompleteWrite(d, loc) == [d EXCEPT !.loose[loc].whole = TRUE]

DbInsert(d, entry) ==
    LET loc == UniqueLocation(d, entry.fingerprint)
    IN  DbCompleteWrite(DbBeginWrite(d, loc, entry), loc)

DbContainsFingerprint(d, fp) == \E e \in BagToSet(Entries(d)) : e.fingerprint = fp

\* compress: every whole per-write unit moves into the archive
DbCompress(d) ==
    [loose |-> [l \in DOMAIN d.loose \ WholeLocations(d) |-> d.loose[l]],
     packed |-> d.packed (+)
                [z \in {Pack(Serialize(e)) : e \in DOMAIN LooseEntries(d)} |->
                    LooseEntries(d)[Parse(Unpack(z))]]]

DbDelete(d) == EmptyDb

SeqToBag(s) ==
    [e \in {s[i] : i \in DOMAIN s} |-> Cardinality({i \in DOMAIN s : s[i] = e})]

RECURSIVE Orders(_)
\* every order in which the entries of a bag can be read, each once
Orders(B) ==
    IF B = EmptyBag THEN {<<>>}
    ELSE UNION {{<<e>> \o s : s \in Orders(B (-) SetToBag({e}))} : e \in BagToSet(B)}

\* an object a scan builds from the wire form of a unit: the entry, and who
\* else holds the mapping itself (top) and the values nested in it
Parsed(entry) == [entry |-> entry, top |-> "nobody", nested |-> "nobody"]

\* the scans of a store: each yields every entry once, parsed anew; the order
\* of a scan across the units is not fixed
Scans(d) == {[i \in DOMAIN s |-> Parsed(s[i])] : s \in Orders(Entries(d))}

\* a scan that does not remember the units it has read
ScanNextForgetful(d, seen) == WholeLocations(d)

\* the units a scan in progress can read next: the whole units it has not read
ScanNext(d, seen) == WholeLocations(d) \ seen

\* the object a scan builds from the unit at location l
ScanRead(d, l) == Parsed(Parse(d.loose[l].data))

\* the first object of a scan, or nothing (the empty sequence)
DbFront(d) == IF Entries(d) = EmptyBag THEN {<<>>} ELSE {<<s[1]>> : s \in Scans(d)}

\* the store after the object it holds for entry old was changed into new
DbTamper(d, old, new) ==
    LET moved(z) == IF Parse(Unpack(z)) = old THEN Pack(Serialize(new)) ELSE z
    IN  [loose |-> [l \in DOMAIN d.loose |->
                      IF Parse(d.loose[l].data) = old
                      THEN [d.loose[l] EXCEPT !.data = Serialize(new)]
                      ELSE d.loose[l]],
         packed |-> [y \in {moved(z) : z \in DOMAIN d.packed} |->
                       d.packed[CHOOSE z \in DOMAIN d.packed : moved(z) = y]]]

----------------------------------------------------------------------------
(* Benchmark: the operations of the class, on the value of its store *)

Fingerprints == {get_arg_data(c.args, c.kwargs).fingp : c \in Calls}

\* a store that answers for any fingerprint once it holds an entry
existsAnyEntry(d, c) == Entries(d) # EmptyBag

\* an exists that looks for the fingerprint in the archive alone
existsArchived(d, c) ==
    \E e \in BagToSet(PackedEntries(d)) : e.fingerprint = get_arg_data(c.args, c.kwargs).fingp

\* Benchmark.exists
exists(d, c) == DbContainsFingerprint(d, get_arg_data(c.args, c.kwargs).fingp)

\* add with its test inverted, and add without its test
AddRunsInverted(d, c) == DbContainsFingerprint(d, get_arg_data(c.args, c.kwargs).fingp)
AddRunsAlways(d, c) == TRUE

\* Benchmark.add: whether the call goes on to run
AddRuns(d, c) == ~exists(d, c)

\* a compress that keeps one entry per fingerprint
compressOnePerFingerprint(d) ==
    LET c == DbCompress(d)
        fps == {Parse(Unpack(z)).fingerprint : z \in DOMAIN c.packed}
    IN  [c EXCEPT !.packed =
            SetToBag({CHOOSE z \in DOMAIN c.packed : Parse(Unpack(z)).fingerprint = fp
                         : fp \in fps})]

\* a compress whose new archive replaces the archive of the last compress
compressReplacesArchive(d) == DbCompress([d EXCEPT !.packed = EmptyBag])

\* a delete that removes the per-write units and leaves the archive
deleteUnitsOnly(d) == [d EXCEPT !.loose = <<>>]

\* Benchmark.compress, Benchmark.delete
compress(d) == DbCompress(d)
delete(d) == DbDelete(d)

\* an insert that takes no entry of a fingerprint the store has
insertUnlessRecorded(d, entry) ==
    IF DbContainsFingerprint(d, entry.fingerprint) THEN d ELSE DbInsert(d, entry)

\* Benchmark.insert, as one step
insert(d, entry) == DbInsert(d, entry)

\* entry.copy(): a new mapping with the items of the object; the values
\* nested in it are those of the object
Copy(object) ==
    [entry |-> [k \in DOMAIN object.entry |-> object.entry[k]],
     top |-> "nobody", nested |-> object.nested]

\* an iteration that ends after its first entry
iterFirstOnly(d) == {[i \in DOMAIN s |-> Copy(s[i])] : s \in DbFront(d)}

\* an iteration that also yields what it can read of the units that are not
\* whole: the beginning of the entry
iterReadsTorn(d) ==
    LET torn == {l \in DOMAIN d.loose : ~d.loose[l].whole}
        begun(l) == [fingerprint |-> Parse(d.loose[l].data).fingerprint]
        all == Entries(d) (+) [e \in {begun(l) : l \in torn} |->
                                  Cardinality({l \in torn : begun(l) = e})]
    IN  {[i \in DOMAIN s |-> Copy(Parsed(s[i]))] : s \in Orders(all)}

\* Benchmark.__iter__: the sequences of entries an iteration can yield
iter(d) == {[i \in DOMAIN s |-> Copy(s[i])] : s \in Scans(d)}

\* Benchmark.front
front(d) == DbFront(d)

\* the entries of a sequence of yielded objects
EntriesOf(objects) == [i \in DOMAIN objects |-> objects[i].entry]

\* the conditions handed to delete_if: result r1 above a bound, and the
\* condition of repair, lambda data: False
Never == [kind |-> "never", bound |-> 0]
Conditions == {[kind |-> "r1_above", bound |-> 0], [kind |-> "r1_above", bound |-> 5]}
Holds(condition, entry) ==
    condition.kind = "r1_above" /\ entry["result"]["result"]["r1"] > condition.bound

\* conditions that raise: on the entries with result r1 above a bound
RaisingConditions == {[kind |-> "raises_above", bound |-> 0], [kind |-> "raises_above", bound |-> 5]}
Throws(condition, entry) ==
    condition.kind = "raises_above" /\ entry["result"]["result"]["r1"] > condition.bound

\* the first loop of delete_if meets an entry its condition raises on: the
\* loop yields every entry of self
DeleteIfRaises(d, condition) == \E e \in BagToSet(Entries(d)) : Throws(condition, e)

RECURSIVE InsertAll(_, _)
\* for entry in entries: benchmark.insert(entry)
InsertAll(d, entries) ==
    IF entries = <<>> THEN d
    ELSE InsertAll(insert(d, Head(entries)), Tail(entries))

\* delete_if copying the entries the condition holds for
delete_if_inverted(d, condition) ==
    {compress(InsertAll(delete(d), EntriesOf(second))) :
        second \in UNION {iter(InsertAll(EmptyDb,
                                         SelectSeq(EntriesOf(first),
                                                   LAMBDA entry : Holds(condition, entry))))
                             : first \in iter(d)}}

\* a delete_if that deletes self before its first loop
delete_if_deleting_first(d, condition) ==
    IF DeleteIfRaises(d, condition) THEN {delete(d)}
    ELSE {compress(InsertAll(delete(d), EntriesOf(second))) :
            second \in UNION {iter(InsertAll(EmptyDb,
                                             SelectSeq(EntriesOf(first),
                                                       LAMBDA entry : ~Holds(condition, entry))))
                                 : first \in iter(d)}}

\* Benchmark.delete_if: the stores it can leave, over the orders of its two
\* scans. The entries of the first scan that the condition does not hold for
\* go to a temporary benchmark; self is deleted; the entries of the
\* temporary benchmark are inserted into self; self is compressed. When the
\* condition raises, delete_if ends in its first loop, before self.delete().
delete_if(d, condition) ==
    IF DeleteIfRaises(d, condition) THEN {d}
    ELSE {compress(InsertAll(delete(d), EntriesOf(second))) :
            second \in UNION {iter(InsertAll(EmptyDb,
                                             SelectSeq(EntriesOf(first),
                                                       LAMBDA entry : ~Holds(condition, entry))))
                                 : first \in iter(d)}}

\* the first loop of delete_if: the temporary benchmarks it can fill
delete_if_scan(d, condition) ==
    {InsertAll(EmptyDb, SelectSeq(EntriesOf(first), LAMBDA entry : ~Holds(condition, entry)))
        : first \in iter(d)}

\* a rebuild that does not delete self before it inserts
delete_if_rebuild_merging(d, temp) ==
    {compress(InsertAll(d, EntriesOf(second))) : second \in iter(temp)}

\* the rest of delete_if: self.delete(), the entries of the temporary
\* benchmark inserted into self, self.compress()
delete_if_rebuild(d, temp) ==
    {compress(InsertAll(delete(d), EntriesOf(second))) : second \in iter(temp)}

\* a repair whose condition holds for every entry
repairDeletingAll(d) == delete_if(d, [kind |-> "r1_above", bound |-> 0])

\* Benchmark.repair
repair(d) == delete_if(d, Never)

----------------------------------------------------------------------------
(* The state machine: workers call the operations of one Benchmark *)

NoCall == [args |-> <<>>, kwargs |-> <<>>]
NoOp == [op |-> "none", call |-> NoCall, loc |-> <<>>]

\* the names of the parameters a call leaves to their defaults
Omitted(c) == Params_set \ DOMAIN BoundArguments(c.args, c.kwargs)

\* the history also keeps the form of the calls where its records have a
\* place for it
FormsTracked == DOMAIN ran # {} /\ \A fp \in DOMAIN ran : "omitted" \in DOMAIN ran[fp]

\* the call with every parameter passed by keyword: what f and
\* _get_arg_data see is the same as for the call as made. Where the form of
\* the calls is kept, the call as made.
Canon(c) ==
    IF FormsTracked THEN c ELSE [args |-> <<>>, kwargs |-> CallArguments(c.args, c.kwargs)]

\* what is recorded of a call that was answered: its arguments, and where
\* the form of the calls is kept the names it left out
Asked(c) ==
    IF FormsTracked THEN <<CallArguments(c.args, c.kwargs), Omitted(c)>>
    ELSE <<CallArguments(c.args, c.kwargs)>>

Did(op, fp, out, yield) == [op |-> op, fp |-> fp, out |-> out, yield |-> yield]

\* a step whose effect shows in pc, cur and db returns nothing to record
Quiet == Did("step", <<>>, "none", <<>>)

\* the history of executions: per fingerprint, how often func raised, how
\* often it returned, and the arguments outside the fingerprint of the call
\* it returned for last; kept by the specifications that switch it on
Tracked == DOMAIN ran # {}
\* the arguments of a call that do not enter its fingerprint
Hidden(c) ==
    LET a == CallArguments(c.args, c.kwargs)
    IN  [p \in {q \in DOMAIN a : StartsWithUnderscore(q)} |-> a[p]]

\* the history after func raised, and after it returned for call c
TrackRaise(fp) == IF Tracked THEN [ran EXCEPT ![fp]["raised"] = @ + 1] ELSE ran
TrackReturn(fp, c) ==
    IF FormsTracked
    THEN [ran EXCEPT ![fp]["returned"] = @ + 1, ![fp]["hidden"] = Hidden(c),
                     ![fp]["omitted"] = Omitted(c)]
    ELSE IF Tracked
    THEN [ran EXCEPT ![fp]["returned"] = @ + 1, ![fp]["hidden"] = Hidden(c)]
    ELSE ran
NeverRan == [fp \in Fingerprints |-> [raised |-> 0, returned |-> 0, hidden |-> <<>>]]

\* the worker of the specifications that follow one caller
Caller == "w1"

Idle(w) == pc[w] = "idle"

\* exclusive access: no other call is in flight
Exclusive == \A w \in Workers : Idle(w)

\* room for the unit of one more write
Room == Units(db) + Cardinality({w \in Workers : pc[w] = "run"}) < MaxUnits

\* a raising computation is attempted at most MaxAttempts times where the
\* history counts the attempts
MayAttempt(fp) == Tracked => ran[fp]["raised"] < MaxAttempts

Init ==
    /\ db = EmptyDb
    /\ pc = [w \in Workers |-> "idle"]
    /\ cur = [w \in Workers |-> NoOp]
    /\ last = Quiet
    /\ ran = <<>>

Exists(w, c) ==
    /\ Idle(w)
    /\ last' = Did("exists", get_arg_data(c.args, c.kwargs).fingp,
                   IF exists(db, c) THEN "true" ELSE "false", Asked(c))
    /\ UNCHANGED <<db, pc, cur, ran>>

\* a run that stores its entry whether or not func raised
WritesAlways(c) == TRUE

\* Benchmark.run: whether the call reaches self._db.add (func returned)
Writes(c) == ~Raises(c)

\* the body of Benchmark.run up to the start of the write
RunBody(w, op, c) ==
    LET fp == get_arg_data(c.args, c.kwargs).fingp
    IN  IF ~Writes(c)
        THEN /\ MayAttempt(fp)
             /\ pc' = [pc EXCEPT ![w] = "idle"]
             /\ cur' = [cur EXCEPT ![w] = NoOp]
             /\ last' = Did(op, fp, "raised", <<>>)
             /\ ran' = TrackRaise(fp)
             /\ UNCHANGED db
        ELSE \E t \in Timestamps, r \in Runtimes :
                LET loc == UniqueLocation(db, fp)
                IN  /\ db' = DbBeginWrite(db, loc, RunEntry(c, t, r))
                    /\ pc' = [pc EXCEPT ![w] = "write"]
                    /\ cur' = [cur EXCEPT ![w] = [op |-> op, call |-> NoCall, loc |-> loc]]
                    /\ last' = Quiet
                    /\ ran' = TrackReturn(fp, c)

\* Benchmark.add, up to its decision
AddCall(w, c) ==
    /\ Idle(w)
    /\ IF AddRuns(db, c)
       THEN /\ Room
            /\ MayAttempt(get_arg_data(c.args, c.kwargs).fingp)
            /\ pc' = [pc EXCEPT ![w] = "run"]
            /\ cur' = [cur EXCEPT ![w] = [op |-> "add", call |-> Canon(c), loc |-> <<>>]]
            /\ last' = Quiet
       ELSE /\ last' = Did("add", get_arg_data(c.args, c.kwargs).fingp, "skipped", Asked(c))
            /\ UNCHANGED <<pc, cur>>
    /\ UNCHANGED <<db, ran>>

\* the run that add calls
AddRun(w) ==
    /\ pc[w] = "run"
    /\ RunBody(w, cur[w].op, cur[w].call)

\* Benchmark.run, called directly
RunCall(w, c) ==
    /\ Idle(w)
    /\ Room
    /\ RunBody(w, "run", c)

\* Benchmark.insert, up to the start of the write
Insert(w, entry) ==
    /\ Idle(w)
    /\ Room
    /\ LET loc == UniqueLocation(db, entry.fingerprint)
       IN  /\ db' = DbBeginWrite(db, loc, entry)
           /\ pc' = [pc EXCEPT ![w] = "write"]
           /\ cur' = [cur EXCEPT ![w] = [op |-> "insert", call |-> NoCall, loc |-> loc]]
           /\ last' = Quiet
    /\ UNCHANGED ran

\* the write of run, add or insert becomes whole, and the call returns
WriteDone(w) ==
    /\ pc[w] = "write"
    /\ db' = DbCompleteWrite(db, cur[w].loc)
    /\ pc' = [pc EXCEPT ![w] = "idle"]
    /\ cur' = [cur EXCEPT ![w] = NoOp]
    /\ last' = Did(cur[w].op, cur[w].loc[1], "written", <<>>)
    /\ UNCHANGED ran

\* the write of run or insert fails part-way: the call raises, and the unit
\* stays as far as it was written
WriteFail(w) ==
    /\ pc[w] = "write"
    /\ pc' = [pc EXCEPT ![w] = "idle"]
    /\ cur' = [cur EXCEPT ![w] = NoOp]
    /\ last' = Did(cur[w].op, cur[w].loc[1], "failed", <<>>)
    /\ UNCHANGED <<db, ran>>

Front(w) ==
    /\ Idle(w)
    /\ \E y \in front(db) : last' = Did("front", <<>>, "returned", y)
    /\ UNCHANGED <<db, pc, cur, ran>>

Iter(w) ==
    /\ Idle(w)
    /\ \E y \in iter(db) : last' = Did("iter", <<>>, "returned", y)
    /\ UNCHANGED <<db, pc, cur, ran>>

\* Benchmark.__iter__ taken one entry at a time. The scan starts with the
\* archive, which only the exclusive operations change.
ScanBegin(w) ==
    /\ Idle(w)
    /\ \E s \in Orders(PackedEntries(db)) :
          cur' = [cur EXCEPT ![w] =
                     [op |-> "iter", call |-> NoCall, loc |-> <<>>,
                      start |-> WholeLocations(db), seen |-> {},
                      out |-> [i \in DOMAIN s |-> Copy(Parsed(s[i]))]]]
    /\ pc' = [pc EXCEPT ![w] = "scan"]
    /\ last' = Quiet
    /\ UNCHANGED <<db, ran>>

\* for entry in self._db: yield entry.copy()
ScanStep(w) ==
    /\ pc[w] = "scan"
    /\ \E l \in ScanNext(db, cur[w].seen) :
          cur' = [cur EXCEPT ![w].seen = @ \cup {l},
                             ![w].out = Append(@, Copy(ScanRead(db, l)))]
    /\ last' = Quiet
    /\ UNCHANGED <<db, pc, ran>>

\* the scan ends: it has read every unit there was when it started, and it
\* need not have read the units that arrived since
ScanEnd(w) ==
    /\ pc[w] = "scan"
    /\ cur[w].start \subseteq cur[w].seen
    /\ pc' = [pc EXCEPT ![w] = "idle"]
    /\ cur' = [cur EXCEPT ![w] = NoOp]
    /\ last' = Did("scan", <<>>, "returned",
                   <<EntriesOf(cur[w].out), cur[w].start, cur[w].seen>>)
    /\ UNCHANGED <<db, ran>>

\* what a caller does to an entry it was handed: replace an item of the
\* mapping, or change a value nested in its parameters or in its result
Changes == {"item", "parameters", "result"}
Tamper(entry, change) ==
    IF change = "item" THEN [entry EXCEPT !["fingerprint"] = <<"digest", "tampered", <<>>>>]
    ELSE IF change = "parameters" THEN [entry EXCEPT !["parameters"]["args"][PX] = 0]
    ELSE [entry EXCEPT !["result"]["result"]["r1"] = 0]

\* the caller changes the i-th entry of those the last iteration or front
\* handed out; the change reaches the store if the store holds that object
Mutate(w, i, change) ==
    /\ Idle(w)
    /\ last.op \in {"iter", "front"}
    /\ i \in DOMAIN last.yield
    /\ LET object == last.yield[i]
           changed == Tamper(object.entry, change)
           holder == IF change = "item" THEN object.top ELSE object.nested
       IN  /\ last' = Did("mutate", <<>>, last.op,
                          [last.yield EXCEPT ![i] = [object EXCEPT !.entry = changed]])
           /\ db' = IF holder = "store" THEN DbTamper(db, object.entry, changed) ELSE db
    /\ UNCHANGED <<pc, cur, ran>>

Compress(w) ==
    /\ Exclusive
    /\ db' = compress(db)
    /\ last' = Did("compress", <<>>, "returned", <<>>)
    /\ UNCHANGED <<pc, cur, ran>>

Delete(w) ==
    /\ Exclusive
    /\ db' = delete(db)
    /\ last' = Did("delete", <<>>, "returned", <<BagCardinality(Entries(db))>>)
    /\ UNCHANGED <<pc, cur, ran>>

DeleteIf(w, condition) ==
    /\ Exclusive
    /\ db' \in delete_if(db, condition)
    /\ last' = Did("delete_if", <<>>,
                   IF DeleteIfRaises(db, condition) THEN "raised" ELSE "returned",
                   <<condition, BagCardinality(Entries(db))>>)
    /\ UNCHANGED <<pc, cur, ran>>

\* delete_if run without exclusive access, up to the end of its first loop
DeleteIfScan(w, condition) ==
    /\ Idle(w)
    /\ \E temp \in delete_if_scan(db, condition) :
          cur' = [cur EXCEPT ![w] =
                     [op |-> "delete_if", call |-> NoCall, loc |-> <<>>,
                      condition |-> condition, temp |-> temp, scanned |-> Entries(db)]]
    /\ pc' = [pc EXCEPT ![w] = "sweep"]
    /\ last' = Quiet
    /\ UNCHANGED <<db, ran>>

\* the rest of that delete_if, taken when no write of another worker is under
\* way: the calls of the other workers fall whole between the two steps
DeleteIfRebuild(w) ==
    /\ pc[w] = "sweep"
    /\ \A v \in Workers : pc[v] # "write"
    /\ db' \in delete_if_rebuild(db, cur[w].temp)
    /\ pc' = [pc EXCEPT ![w] = "idle"]
    /\ cur' = [cur EXCEPT ![w] = NoOp]
    /\ last' = Did("delete_if", <<>>, "returned",
                   <<cur[w].condition, Entries(db), cur[w].scanned>>)
    /\ UNCHANGED ran

\* for entry in self: benchmark_copy.insert(entry), into a new benchmark
CopyTo(w) ==
    /\ Idle(w)
    /\ \E copy \in delete_if_scan(db, Never) : last' = Did("copy", <<>>, "returned", <<copy>>)
    /\ UNCHANGED <<db, pc, cur, ran>>

Repair(w) ==
    /\ Exclusive
    /\ db' \in repair(db)
    /\ last' = Did("repair", <<>>, "returned",
                   <<BagCardinality(Entries(db)),
                     Cardinality(DOMAIN db.loose \ WholeLocations(db))>>)
    /\ UNCHANGED <<pc, cur, ran>>

Next ==
    \E w \in Workers :
        \/ \E c \in MainCalls : Exists(w, c)
        \/ \E c \in MainCalls : AddCall(w, c)
        \/ AddRun(w)
        \/ \E c \in MainCalls : RunCall(w, c)
        \/ \E entry \in InsertEntries : Insert(w, entry)
        \/ WriteDone(w)
        \/ Front(w)
        \/ Iter(w)
        \/ Compress(w)
        \/ Delete(w)
        \/ \E condition \in Conditions : DeleteIf(w, condition)
        \/ Repair(w)

Spec == Init /\ [][Next]_vars

\* Workers that write, read and change what they have read.
NextIter ==
    \E w \in Workers :
        \/ \E c \in MainCalls : Exists(w, c)
        \/ \E c \in MainCalls : AddCall(w, c)
        \/ AddRun(w)
        \/ \E c \in MainCalls : RunCall(w, c)
        \/ \E entry \in InsertEntries : Insert(w, entry)
        \/ WriteDone(w)
        \/ Front(w)
        \/ Iter(w)
        \/ \E i \in 1..MaxUnits, change \in Changes : Mutate(w, i, change)

SpecIter == Init /\ [][NextIter]_vars

\* Workers whose writes can fail part-way, and a caller that reads and runs
\* the maintenance operations, these with exclusive access, on what the
\* writes left.
NextMaint ==
    \/ \E w \in Workers \ {Caller} :
          \/ \E c \in MainCalls : RunCall(w, c)
          \/ \E entry \in InsertEntries : Insert(w, entry)
          \/ WriteDone(w)
          \/ WriteFail(w)
    \/ Iter(Caller)
    \/ Compress(Caller)
    \/ Repair(Caller)
    \/ CopyTo(Caller)
    \/ \E condition \in Conditions \cup RaisingConditions : DeleteIf(Caller, condition)

SpecMaint == Init /\ [][NextMaint]_vars

\* A caller that iterates entry by entry while the other workers write, and
\* compresses between its calls. A scan in progress goes on: a worker is a
\* synchronous caller that nothing suspends.
NextScan ==
    \/ \E w \in Workers \ {Caller} :
          \/ \E entry \in InsertEntries : Insert(w, entry)
          \/ WriteDone(w)
    \/ ScanBegin(Caller)
    \/ ScanStep(Caller)
    \/ ScanEnd(Caller)
    \/ Compress(Caller)

SpecScan ==
    /\ Init
    /\ [][NextScan]_vars
    /\ WF_vars(ScanStep(Caller) \/ ScanEnd(Caller))

\* A caller that runs delete_if while the other workers add: the access the
\* class asks for is not kept.
NextUnsafe ==
    \/ \E w \in Workers \ {Caller} :
          \/ \E c \in MainCalls : AddCall(w, c)
          \/ AddRun(w)
          \/ WriteDone(w)
    \/ \E condition \in Conditions : DeleteIfScan(Caller, condition)
    \/ DeleteIfRebuild(Caller)

SpecUnsafe == Init /\ [][NextUnsafe]_vars

\* A single caller that adds and asks with x = 1 in every form of call, the
\* form of the calls kept in the history.
DefaultCalls == {c \in Calls : BoundArguments(c.args, c.kwargs)[PX] = 1}

NeverRanForms ==
    [fp \in Fingerprints |-> [raised |-> 0, returned |-> 0, hidden |-> <<>>, omitted |-> {}]]

InitForms ==
    /\ db = EmptyDb
    /\ pc = [w \in Workers |-> "idle"]
    /\ cur = [w \in Workers |-> NoOp]
    /\ last = Quiet
    /\ ran = NeverRanForms

NextDefaults ==
    \/ \E c \in DefaultCalls : Exists(Caller, c)
    \/ \E c \in DefaultCalls : AddCall(Caller, c)
    \/ AddRun(Caller)
    \/ WriteDone(Caller)

SpecDefaults == InitForms /\ [][NextDefaults]_vars

\* A single caller that only adds and asks: every way of calling f with an x
\* f returns for and with an x f raises for, with the history of executions
\* kept.

InitSeq ==
    /\ db = EmptyDb
    /\ pc = [w \in Workers |-> "idle"]
    /\ cur = [w \in Workers |-> NoOp]
    /\ last = Quiet
    /\ ran = NeverRan

SeqCalls == {c \in Calls : BoundArguments(c.args, c.kwargs)[PX] \in {1} \cup FailingX}

NextSeq ==
    \/ \E c \in SeqCalls : Exists(Caller, c)
    \/ \E c \in SeqCalls : AddCall(Caller, c)
    \/ AddRun(Caller)
    \/ WriteDone(Caller)

SpecSeq == InitSeq /\ [][NextSeq]_vars

\* Workers that race through exists -> compute -> add, and a compress once
\* they have all finished, with the history of executions kept.
RaceCalls == {c \in MainCalls : ~Raises(c)}

NextRace ==
    \E w \in Workers :
        \/ \E c \in RaceCalls : Exists(w, c)
        \/ \E c \in RaceCalls : AddCall(w, c)
        \/ AddRun(w)
        \/ WriteDone(w)
        \/ Compress(w)

SpecRace == InitSeq /\ [][NextRace]_vars

----------------------------------------------------------------------------
(* Properties *)

FingpOf(c) == get_arg_data(c.args, c.kwargs).fingp

\* C1 (SpecSeq): for a single caller that only adds and asks, once add has
\* returned without raising, exists is true for the arguments added (also
\* when add is called again for them) and false for every fingerprint no add
\* has returned for; and exists answers true exactly for the fingerprints
\* some add has returned for.
C1_AddThenExists ==
    /\ (last.op = "add" /\ last.out \in {"written", "skipped"}) =>
          \A c \in Calls :
              /\ FingpOf(c) = last.fp => exists(db, c)
              /\ ran[FingpOf(c)]["returned"] = 0 => ~exists(db, c)
    /\ last.op = "exists" => (last.out = "true" <=> ran[last.fp]["returned"] > 0)

\* exists has answered false for arguments never added while other
\* arguments, added before, are found
C1_Witness ==
    /\ last.op = "exists" /\ last.out = "false"
    /\ \E c \in Calls : exists(db, c) /\ ran[FingpOf(c)]["returned"] = 1

\* C2 (Spec): under every interleaving of the workers, exists answers true
\* only for a fingerprint that a whole unit of the store, written by run or
\* insert and still there, carries.
C2_NoFalsePositive ==
    (last.op = "exists" /\ last.out = "true") =>
        \/ \E l \in DOMAIN db.loose :
              db.loose[l].whole /\ Parse(db.loose[l].data).fingerprint = last.fp
        \/ \E z \in DOMAIN db.packed : Parse(Unpack(z)).fingerprint = last.fp

\* exists has answered true while another worker is in the middle of a write
C2_Witness ==
    /\ last.op = "exists" /\ last.out = "true"
    /\ \E w \in Workers : pc[w] = "write"

\* C3 (Spec): a step in which func raises writes nothing: the store is the
\* same as before, the exception reaches the caller of run or add, the call
\* is over, and add for the same arguments would run the computation again.
C3_RaiseWritesNothing ==
    [][/\ last'.out = "raised" => db' = db
       /\ \A w \in Workers :
            (pc[w] = "run" /\ pc'[w] # "run" /\ Raises(cur[w].call)) =>
                /\ last' = Did("add", FingpOf(cur[w].call), "raised", <<>>)
                /\ db' = db
                /\ pc'[w] = "idle"
                /\ AddRuns(db', cur[w].call)
                /\ ~exists(db', cur[w].call)]_vars

\* func has raised in a store that holds entries
C3_Witness == last.out = "raised" /\ Entries(db) # EmptyBag

\* the steps of add: func is called for the fingerprint fp
Executes(fp) ==
    \E w \in Workers : pc[w] = "run" /\ pc'[w] # "run" /\ FingpOf(cur[w].call) = fp

\* add is called for a fingerprint the store has recorded: nothing runs and
\* nothing is written. A call of add either goes on to run (its worker leaves
\* idle) or returns at once (the step records "skipped").
SkipsRecorded ==
    /\ \A w \in Workers :
          (Idle(w) /\ pc'[w] = "run") =>
              ~DbContainsFingerprint(db, FingpOf(cur'[w].call))
    /\ (last'.op = "add" /\ last'.out = "skipped") =>
          /\ DbContainsFingerprint(db, last'.fp)
          /\ db' = db /\ pc' = pc /\ cur' = cur /\ ran' = ran

AtMostOneEntryPerFingerprint(d) ==
    \A fp \in Fingerprints :
        BagCardinality([e \in {x \in BagToSet(Entries(d)) : x.fingerprint = fp} |->
                            Entries(d)[e]]) <= 1

\* C4 as claimed (SpecSeq): add skips what is recorded, and over a sequence of
\* add calls func is executed at most once per fingerprint.
C4_Original ==
    [][/\ SkipsRecorded
       /\ \A fp \in Fingerprints :
            Executes(fp) => ran[fp]["raised"] + ran[fp]["returned"] = 0
       /\ AtMostOneEntryPerFingerprint(db')]_vars

\* C4 amended (SpecSeq): add skips what is recorded; over a sequence of add
\* calls func returns at most once per fingerprint (a computation that
\* raised is executed again by a later add), and the store holds at most one
\* entry per fingerprint.
C4_RunsOnlyUnrecorded ==
    [][/\ SkipsRecorded
       /\ \A fp \in Fingerprints :
            Executes(fp) => (ran[fp]["returned"] = 0 /\ ran'[fp]["returned"] <= 1)
       /\ AtMostOneEntryPerFingerprint(db')]_vars

\* add has skipped a recorded fingerprint after a raising computation was
\* attempted twice
C4_Witness ==
    /\ last.op = "add" /\ last.out = "skipped"
    /\ \E fp \in Fingerprints : ran[fp]["raised"] = 2

\* the number of entries of store d that carry fingerprint fp
Count(d, fp) ==
    LET B == Entries(d)
    IN  BagCardinality([e \in {x \in BagToSet(B) : x.fingerprint = fp} |-> B[e]])

\* the entries a run of a call of the racing workers writes
RaceEntries == {RunEntry(c, t, r) : c \in RaceCalls, t \in Timestamps, r \in Runtimes}

\* C5 (SpecRace): whenever the racing workers have all finished, and so after
\* the compress that follows, the store holds for every fingerprint as many
\* entries as computations returned for it (none overwritten, none missing,
\* so each computed fingerprint at least once), every unit is whole, and
\* every entry is one a worker wrote.
C5_RaceKeepsEveryEntry ==
    Exclusive =>
        /\ \A fp \in Fingerprints : Count(db, fp) = ran[fp]["returned"]
        /\ \A l \in DOMAIN db.loose : db.loose[l].whole
        /\ BagToSet(Entries(db)) \subseteq RaceEntries
        /\ last.op = "compress" => DOMAIN db.loose = {}

\* two workers raced on one fingerprint and recorded different timestamps,
\* and compress has run after both finished
C5_Witness ==
    /\ last.op = "compress"
    /\ \E fp \in Fingerprints :
          /\ ran[fp]["returned"] = 2
          /\ Cardinality({e \in BagToSet(Entries(db)) : e.fingerprint = fp}) = 2

\* C6 (Spec): compress with exclusive access loses no entry: iteration
\* yields the same entries, as often, after it as before it, and exists
\* answers the same for every call.
C6_CompressKeepsEntries ==
    [][last'.op = "compress" =>
          /\ Entries(db') = Entries(db)
          /\ iter(db') = iter(db)
          /\ \A c \in MainCalls : exists(db', c) = exists(db, c)]_vars

\* compress has run on a store whose archive held an entry already
C6_Witness == last.op = "compress" /\ BagCardinality(db.packed) = 2

\* C7 (SpecRace): the store drops no duplicate: a write that completes adds
\* one entry for its fingerprint, whatever the store holds for it already,
\* so two workers that both saw exists false leave two entries; and compress
\* leaves the number of entries of every fingerprint as it was.
C7_DuplicatesKept ==
    [][/\ \A w \in Workers :
            (pc[w] = "write" /\ pc'[w] = "idle") =>
                \A fp \in Fingerprints :
                    Count(db', fp) = Count(db, fp) + (IF fp = cur[w].loc[1] THEN 1 ELSE 0)
       /\ last'.op = "compress" =>
            \A fp \in Fingerprints : Count(db', fp) = Count(db, fp)
       /\ (Exclusive' /\ \E fp \in Fingerprints : ran'[fp]["returned"] = 2) =>
            \E fp \in Fingerprints : Count(db', fp) = 2]_vars

\* compress has run on two equal entries of one fingerprint, written by two
\* workers that raced
C7_Witness ==
    /\ last.op = "compress"
    /\ \E z \in DOMAIN db.packed : db.packed[z] = 2

\* the entries of bag B the condition does not hold for, as often as in B
Survivors(B, condition) ==
    [e \in {x \in BagToSet(B) : ~Holds(condition, x)} |-> B[e]]

\* C8 (Spec): delete_if with exclusive access leaves exactly the entries its
\* condition is false for, each as often as before and unchanged.
C8_DeleteIfFilters ==
    [][last'.op = "delete_if" =>
          /\ Entries(db') = Survivors(Entries(db), last'.yield[1])
          /\ \A e \in BagToSet(Entries(db')) :
                ~Holds(last'.yield[1], e) /\ e \in BagToSet(Entries(db))]_vars

\* delete_if for r1 > 5 has run on two entries and left the one with r1 = 1
C8_Witness ==
    /\ last.op = "delete_if"
    /\ last.yield = <<[kind |-> "r1_above", bound |-> 5], 2>>
    /\ {e["result"]["result"]["r1"] : e \in BagToSet(Entries(db))} = {1}

\* the arguments a that enter the identity of a call are the stored
\* parameters of entry e
SameIdentity(a, e) ==
    LET stored == e["parameters"]["args"]
    IN  /\ \A p \in DOMAIN a : ~StartsWithUnderscore(p) => (p \in DOMAIN stored /\ stored[p] = a[p])
        /\ \A p \in DOMAIN stored : p \in DOMAIN a

Recorded(a, d) == \E e \in BagToSet(Entries(d)) : SameIdentity(a, e)

\* C9 (SpecSeq): names that begin with "_" are outside the identity of a
\* call: exists answers true, and add skips, exactly when the store holds an
\* entry whose parameters are the arguments of the call without the "_"
\* names, whatever the "_" arguments are; and no stored parameters hold a
\* name that begins with "_".
C9_UnderscoreOutsideIdentity ==
    /\ \A e \in BagToSet(Entries(db)) :
          \A p \in DOMAIN e["parameters"]["args"] : ~StartsWithUnderscore(p)
    /\ last.op = "exists" => (last.out = "true" <=> Recorded(last.yield[1], db))
    /\ (last.op = "add" /\ last.out = "skipped") => Recorded(last.yield[1], db)
    /\ pc[Caller] = "run" => ~Recorded(cur[Caller].call.kwargs, db)

\* add has skipped a call with _test=None whose entry a call with _test=2
\* had written
C9_Witness ==
    /\ last.op = "add" /\ last.out = "skipped"
    /\ last.yield[1][PTest] = None
    /\ ran[last.fp]["returned"] = 1
    /\ ran[last.fp]["hidden"] = (PTest :> 2)

\* what the workers can observe of a store
Observed(d) == <<iter(d), front(d), {c \in MainCalls : exists(d, c)}>>

BeingWritten(fp) ==
    {l \in DOMAIN db.loose :
        /\ l[1] = fp
        /\ ~db.loose[l].whole
        /\ \E w \in Workers : pc[w] = "write" /\ cur[w].loc = l}

\* a unit or an archived entry of fingerprint fp whose write is complete
Visible(fp) ==
    \/ \E l \in WholeLocations(db) : l[1] = fp
    \/ \E z \in DOMAIN db.packed : Parse(Unpack(z)).fingerprint = fp

\* C11 (Spec): exists is wrong only about fresh data: when exists has
\* answered false, no write of an entry of that fingerprint is complete, and
\* every unit of that fingerprint in the store is one another worker is
\* still writing; when a write of the fingerprint was complete at the call,
\* exists has answered true.
C11_FalseNegativeOnlyFresh ==
    last.op = "exists" =>
        /\ Visible(last.fp) => last.out = "true"
        /\ last.out = "false" =>
              \A l \in DOMAIN db.loose : l[1] = last.fp => l \in BeingWritten(last.fp)

\* exists has answered false while another worker is writing an entry of the
\* fingerprint asked for
C11_Witness ==
    /\ last.op = "exists" /\ last.out = "false"
    /\ BeingWritten(last.fp) # {}

\* C13 (Spec): delete, run with exclusive access, removes the whole
\* collection: in the store it leaves, an iteration yields nothing, front
\* returns nothing and exists is false for every call of f, whatever the
\* units and the archive held before.
C13_DeleteRemovesAll ==
    [][last'.op = "delete" =>
          /\ iter(db') = {<<>>}
          /\ front(db') = {<<>>}
          /\ \A c \in Calls : ~exists(db', c)
          /\ Units(db') = 0]_vars

\* delete has returned for a store that held two entries
C13_Witness ==
    /\ last.op = "delete"
    /\ last.yield = <<2>>
    /\ db = EmptyDb

\* the units a failed write left: not whole, and no worker is writing them
TornUnits(d) ==
    {l \in DOMAIN d.loose :
        ~d.loose[l].whole /\ ~\E w \in Workers : pc[w] = "write" /\ cur[w].loc = l}

\* C12 (SpecMaint): a write that failed part-way is seen not at all: an
\* iteration yields one entry per whole unit and per archived entry, each
\* complete and one that a writer submitted, and compress carries exactly
\* the entries of the whole units over into the archive, each complete and
\* one that a writer submitted, and makes no unit whole.
C12_WholeOrNotAtAll ==
    [][/\ last'.op = "iter" =>
            /\ \A i \in DOMAIN last'.yield : last'.yield[i].entry \in InsertEntries
            /\ Len(last'.yield) = Cardinality(WholeLocations(db)) + BagCardinality(db.packed)
       /\ last'.op = "compress" =>
            /\ \A z \in DOMAIN db'.packed : Parse(Unpack(z)) \in InsertEntries
            /\ BagCardinality(db'.packed)
                  = BagCardinality(db.packed) + Cardinality(WholeLocations(db))
            /\ WholeLocations(db') = {}
            /\ DOMAIN db'.loose = DOMAIN db.loose \ WholeLocations(db)]_vars

\* an iteration has yielded the one whole entry of a store in which a failed
\* write left a unit
C12_Witness ==
    /\ last.op = "iter"
    /\ Len(last.yield) = 1
    /\ TornUnits(db) # {}

\* C14 (SpecIter): under exists, run, add, insert, front and iteration the
\* store only grows: every step keeps every entry with its multiplicity,
\* keeps every whole unit where it is and as it is, and keeps the archive;
\* and a step of exists, front or iteration changes nothing in the store.
C14_AppendOnly ==
    [][/\ Entries(db) \sqsubseteq Entries(db')
       /\ \A l \in WholeLocations(db) :
             l \in WholeLocations(db') /\ db'.loose[l] = db.loose[l]
       /\ db'.packed = db.packed
       /\ last'.op \in {"exists", "front", "iter"} => db' = db]_vars

\* a second entry of a fingerprint has been written next to the first
C14_Witness ==
    /\ last.out = "written"
    /\ \E l1, l2 \in WholeLocations(db) : l1 # l2 /\ l1[1] = l2[1] /\ l2[1] = last.fp

\* the entries of the units at the locations ls, with their multiplicity
EntriesAt(d, ls) ==
    [e \in {Parse(d.loose[l].data) : l \in ls} |->
        Cardinality({l \in ls : Parse(d.loose[l].data) = e})]

\* what a scan has yielded is one entry per archived entry and per unit read,
\* and the units read are whole units of the store
YieldedOnce(out, seen) ==
    /\ seen \subseteq WholeLocations(db)
    /\ SeqToBag(out) = PackedEntries(db) (+) EntriesAt(db, seen)

\* C15 (SpecScan): an iteration that runs while other workers write ends;
\* at every moment it has yielded each unit it has read once, and only whole
\* units; when it ends it has read every unit that was whole when it
\* started, and of the units that arrived since each at most once; a new
\* iteration starts with nothing read.
C15_ScanConsistent ==
    /\ [](\A w \in Workers : pc[w] = "scan" =>
             /\ YieldedOnce(EntriesOf(cur[w].out), cur[w].seen)
             /\ Len(cur[w].out) = 0 => cur[w].seen = {})
    /\ [](last.op = "scan" =>
             /\ YieldedOnce(last.yield[1], last.yield[3])
             /\ last.yield[2] \subseteq last.yield[3])
    /\ \A w \in Workers : pc[w] = "scan" ~> pc[w] = "idle"

\* an iteration has ended that started with one unit and has read a second,
\* written while it ran
C15_Witness ==
    /\ last.op = "scan"
    /\ Cardinality(last.yield[2]) = 1
    /\ Cardinality(last.yield[3]) = 2
    /\ Len(last.yield[1]) = 2

\* C16 (SpecUnsafe): a delete_if that other workers add into is not held up
\* and notices nothing: what it leaves is what its scan saw and its
\* condition does not hold for, so every entry an add wrote between the
\* scan and the delete is gone.
C16_UnsafeMaintenanceLoses ==
    [][/\ last'.op = "delete_if" =>
            /\ Entries(db') = Survivors(cur[Caller].scanned, cur[Caller].condition)
            /\ \A e \in BagToSet(Entries(db) (-) cur[Caller].scanned) :
                  CopiesIn(e, Entries(db')) = CopiesIn(e, Survivors(cur[Caller].scanned,
                                                                    cur[Caller].condition))
       /\ (pc[Caller] = "sweep" /\ \A v \in Workers : pc[v] # "write")
             => ENABLED DeleteIfRebuild(Caller)]_vars

\* delete_if has returned, and an entry that its condition does not hold
\* for, written by an add of another worker after the scan, is not in the
\* store
C16_Witness ==
    /\ last.op = "delete_if"
    /\ \E e \in BagToSet(last.yield[2]) :
          /\ ~Holds(last.yield[1], e)
          /\ CopiesIn(e, last.yield[3]) = 0
          /\ CopiesIn(e, Entries(db)) = 0

\* the identity of a call from the arguments a: each parameter that is not
\* left out of the identity, with the value passed or else its default
ResolvedIdentity(a) ==
    [p \in {q \in Params_set : ~StartsWithUnderscore(q)} |->
        IF p \in DOMAIN a THEN a[p] ELSE Defaults[p]]

StoredAs(identity) == \E e \in BagToSet(Entries(db)) : e["parameters"]["args"] = identity

\* C17 (SpecDefaults): the identity of a call is default-merged: two calls
\* have the same argument data and fingerprint exactly when the values they
\* pass or leave to the defaults are the same outside the "_" names, however
\* passed; exists is true, and add skips, exactly when an entry is stored
\* whose parameters are those values, and add runs only when none is.
C17_DefaultMerged ==
    /\ \A c1, c2 \in DefaultCalls :
          LET r1 == ResolvedIdentity(BoundArguments(c1.args, c1.kwargs))
              r2 == ResolvedIdentity(BoundArguments(c2.args, c2.kwargs))
          IN  /\ get_arg_data(c1.args, c1.kwargs).arg_data.args = r1
              /\ (r1 = r2) <=> (FingpOf(c1) = FingpOf(c2))
    /\ last.op = "exists" => (last.out = "true" <=> StoredAs(ResolvedIdentity(last.yield[1])))
    /\ (last.op = "add" /\ last.out = "skipped") => StoredAs(ResolvedIdentity(last.yield[1]))
    /\ pc[Caller] = "run" =>
          ~StoredAs(ResolvedIdentity(BoundArguments(cur[Caller].call.args,
                                                    cur[Caller].call.kwargs)))

\* add has skipped a call that passes default="default", the entry being
\* that of a call that left default out; and add has run a call with
\* another value of default
C17_Witness ==
    /\ last.op = "add" /\ last.out = "skipped"
    /\ PDefault \notin last.yield[2]
    /\ last.yield[1][PDefault] = Defaults[PDefault]
    /\ ran[last.fp]["returned"] = 1
    /\ PDefault \in ran[last.fp]["omitted"]
    /\ \E fp \in Fingerprints : fp # last.fp /\ ran[fp]["returned"] = 1

\* C18 (SpecMaint): inserting what an iteration of the store yields into an
\* empty store gives a store with the same entries, each as often: every
\* iteration of the copy yields them, exists answers for the copy as for
\* the store for every fingerprint of f, and the store is as it was.
C18_CopyIsFaithful ==
    [][last'.op = "copy" =>
          LET copy == last'.yield[1]
          IN  /\ Entries(copy) = Entries(db)
              /\ \A s \in iter(copy) : SeqToBag(EntriesOf(s)) = Entries(db)
              /\ \A c \in MainCalls : exists(copy, c) <=> exists(db, c)
              /\ db' = db]_vars

\* a store that holds two entries of one fingerprint has been copied
C18_Witness ==
    /\ last.op = "copy"
    /\ \E e1, e2 \in BagToSet(Entries(db)) : e1 # e2 /\ e1.fingerprint = e2.fingerprint
    /\ BagCardinality(Entries(last.yield[1])) = 2

\* C19 (SpecMaint): repair, run with exclusive access, keeps the logical
\* content: the store it leaves holds the entries the store held, each as
\* often and unchanged, and no other; exists answers as before for every
\* fingerprint of f; no unit of a failed write is left; and the store takes
\* an insert of any entry, which exists then finds.
C19_RepairKeepsContent ==
    [][last'.op = "repair" =>
          /\ Entries(db') = Entries(db)
          /\ \A c \in MainCalls : exists(db', c) <=> exists(db, c)
          /\ DOMAIN db'.loose = {}
          /\ \A entry \in InsertEntries :
                /\ Entries(insert(db', entry)) = Entries(db') (+) SetToBag({entry})
                /\ DbContainsFingerprint(insert(db', entry), entry.fingerprint)]_vars

\* repair has returned for a store that held one entry and the unit of a
\* failed write, and the store holds the entry
C19_Witness ==
    /\ last.op = "repair"
    /\ last.yield = <<1, 1>>
    /\ BagCardinality(Entries(db)) = 1

\* C20 (SpecMaint): a delete_if whose condition raises on an entry of the
\* store raises and leaves the store as it was, units and archive; a
\* delete_if that has raised has changed nothing; and a condition that
\* could raise but meets no entry it raises on deletes nothing.
C20_RaisingConditionKeepsStore ==
    [][last'.op = "delete_if" =>
          /\ DeleteIfRaises(db, last'.yield[1]) => (last'.out = "raised" /\ db' = db)
          /\ last'.out = "raised" => db' = db
          /\ (last'.yield[1] \in RaisingConditions /\ last'.out = "returned")
                => Entries(db') = Entries(db)]_vars

\* delete_if has raised on a store that holds an entry its condition raises
\* on and an entry it does not raise on
C20_Witness ==
    /\ last.op = "delete_if" /\ last.out = "raised"
    /\ \E e1, e2 \in BagToSet(Entries(db)) :
          Throws(last.yield[1], e1) /\ ~Throws(last.yield[1], e2)

====
